---- MODULE Spec2Model ----
(***************************************************************************)
(* A model of the CHIP-8 interpreter core of chip-n-claw:                  *)
(*   src/src/architecture.rs        Architecture::new, execute, opcodes    *)
(*   src/src/architecture/stack.rs  Stack::new, push, pop                  *)
(*   src/src/architecture/utils.rs  Hex::swap_hex_digits                   *)
(*   src/src/main.rs                main, execute, OpCodes, Architecture   *)
(*                                                                         *)
(* Rust panics (panic!, todo!, a failed index, a checked arithmetic        *)
(* overflow) end the process; the model records the panic message in       *)
(* `panic` and takes no further step.  Arithmetic overflow panics in a     *)
(* build with overflow checks (the default dev profile) and wraps in a     *)
(* build without them (the default release profile); `overflow_checks`     *)
(* is the profile of the build that runs.                                  *)
(***************************************************************************)
EXTENDS Integers, Sequences, FiniteSets, TLC

VARIABLES
    ram,              \* Architecture.ram      : [u8; RAM_SIZE], its non-zero bytes
    stack,            \* Architecture.stack    : Stack {memory, sp}
    display,          \* Architecture.display  : [u8; WIDTH * HEIGHT], its non-zero bytes
    v,                \* Architecture.v        : [u8; 16]
    i,                \* Architecture.i        : u16
    pc,               \* Architecture.pc       : u16
    dt,               \* Architecture.dt       : u8
    st,               \* Architecture.st       : u8
    rom,              \* the words of the `rom` argument fetched so far
    rom_len,          \* rom.len()
    overflow_checks,  \* build profile: TRUE = overflow panics, FALSE = wraps
    panic,            \* NoPanic, or the message of the panic that ended the run
    exited,           \* TRUE once process::exit has been called
    file,             \* the ROM file of main.rs: its bytes, and whether it has been read
    hist,             \* history: the last executed steps (instruction, state before)
    calls,            \* history: the last direct calls of Stack::push / Stack::pop
    net,              \* history: successful pushes minus value-returning pops
    shadow            \* history: the addresses pushed and not yet popped

vars == <<ram, stack, display, v, i, pc, dt, st, rom, rom_len, overflow_checks,
          panic, exited, file, hist, calls, net, shadow>>

\* what a direct call of a Stack method leaves alone
arch_vars == <<ram, display, v, i, pc, dt, st, rom, rom_len, overflow_checks, exited,
               file, hist>>

\* the history of direct Stack calls
stack_hist == <<calls, net, shadow>>

(***************************************************************************)
(* Program constants                                                       *)
(***************************************************************************)
WIDTH == 64

HEIGHT == 32

RAM_SIZE == 4096

STACK_SIZE == 16

U8 == 256

U16 == 65536

(***************************************************************************)
(* Bounds of the model                                                     *)
(***************************************************************************)
\* longest ROM (in instruction words) handed to execute
MaxRomLen == 3

\* longest ROM file (in bytes) read by init_rom
MaxFileLen == 5

\* length of the long ROM (in instruction words): one word for every value of
\* the 16-bit program counter
LongRomLen == 65536

(***************************************************************************)
(* Panic messages                                                          *)
(***************************************************************************)
NoPanic == "none"

OpCodeDoesNotExist == "OpCode does not exist!"

NotYetImplemented == "not yet implemented"

StackOverflow == "Stack overflow!"

IndexOutOfBounds == "index out of bounds"

AddOverflow == "attempt to add with overflow"

SubOverflow == "attempt to subtract with overflow"

\* a process that never returns to its caller once the process has ended
Ended_never == FALSE

\* the process has ended: a panic left main, or process::exit was called, and
\* no statement after it is executed
Ended == panic # NoPanic \/ exited

(***************************************************************************)
(* Bit operations on naturals                                              *)
(***************************************************************************)
RECURSIVE BitAnd(_, _)
BitAnd(a, b) ==
    IF a = 0 \/ b = 0 THEN 0
    ELSE (a % 2) * (b % 2) + 2 * BitAnd(a \div 2, b \div 2)

RECURSIVE BitOr(_, _)
BitOr(a, b) ==
    IF a = 0 THEN b
    ELSE IF b = 0 THEN a
    ELSE (IF a % 2 = 1 \/ b % 2 = 1 THEN 1 ELSE 0) + 2 * BitOr(a \div 2, b \div 2)

RECURSIVE BitXor(_, _)
BitXor(a, b) ==
    IF a = 0 THEN b
    ELSE IF b = 0 THEN a
    ELSE ((a + b) % 2) + 2 * BitXor(a \div 2, b \div 2)

\* a >> n
Shr(a, n) == a \div (2 ^ n)

\* a << n on a u16: the bits shifted out are dropped (no panic for n < 16)
Shl16(a, n) == (a * (2 ^ n)) % U16

\* a << n on a u8
Shl8(a, n) == (a * (2 ^ n)) % U8

(***************************************************************************)
(* Byte arrays.  ram and display are arrays of RAM_SIZE and WIDTH * HEIGHT *)
(* bytes; the model stores the entries that are not 0, so that an array    *)
(* of zeros is the function with the empty domain.                         *)
(***************************************************************************)
\* the array expression [val; n]
Fill(n, val) == [k \in (IF val = 0 THEN {} ELSE 0..(n - 1)) |-> val]

(***************************************************************************)
(* Operand fields of an instruction word                                   *)
(***************************************************************************)
\* ((instruction & 0x0F00) >> 2 * 4)
X(instruction) == Shr(BitAnd(instruction, 3840), 8)

\* ((instruction & 0x00F0) >> 1 * 4)
Y(instruction) == Shr(BitAnd(instruction, 240), 4)

\* (instruction & 0x00FF)
KK(instruction) == BitAnd(instruction, 255)

\* instruction & 0xFFF
NNN(instruction) == BitAnd(instruction, 4095)

(***************************************************************************)
(* utils.rs                                                                *)
(***************************************************************************)
\* temp = (num >> (4*i)) ^ ((num >> (4*j)) & 0xF): in Rust `&` binds tighter
\* than `^`, so only the second operand is masked
swap_hex_digits(num, di, dj) ==
    LET temp == BitXor(Shr(num, 4 * di), BitAnd(Shr(num, 4 * dj), 15))
    IN  BitXor(BitXor(num, Shl16(temp, 4 * di)), Shl16(temp, 4 * dj))

(***************************************************************************)
(* stack.rs                                                                *)
(***************************************************************************)
Stack_new == [memory |-> [k \in 0..(STACK_SIZE - 1) |-> 0], sp |-> 0]

\* push with the capacity test off by one (sp <= STACK_SIZE)
push_le(s, value) ==
    IF s.sp <= STACK_SIZE
    THEN [stack |-> [memory |-> [k \in 0..(STACK_SIZE - 1) |->
                                    IF k = s.sp THEN value ELSE s.memory[k]],
                     sp |-> s.sp + 1],
          panic |-> NoPanic]
    ELSE [stack |-> s, panic |-> StackOverflow]

\* Stack::push: the stack afterwards and the panic raised, if any
push(s, value) ==
    IF s.sp < STACK_SIZE
    THEN [stack |-> [memory |-> [s.memory EXCEPT ![s.sp] = value], sp |-> s.sp + 1],
          panic |-> NoPanic]
    ELSE [stack |-> s, panic |-> StackOverflow]

None == <<"None">>

Some(val) == <<"Some", val>>

\* pop that leaves the popped slot as it was (no self.memory[self.sp] = 0)
pop_no_clear(s) ==
    IF s.sp > 0
    THEN LET sp1 == s.sp - 1
         IN  [stack |-> [memory |-> s.memory, sp |-> sp1],
              result |-> Some(s.memory[sp1])]
    ELSE [stack |-> s, result |-> None]

\* Stack::pop: the stack afterwards and the Option<u16> returned
pop(s) ==
    IF s.sp > 0
    THEN LET sp1 == s.sp - 1
         IN  [stack |-> [memory |-> [s.memory EXCEPT ![sp1] = 0], sp |-> sp1],
              result |-> Some(s.memory[sp1])]
    ELSE [stack |-> s, result |-> None]

(***************************************************************************)
(* architecture.rs: the machine                                            *)
(***************************************************************************)
Architecture_new ==
    [ram     |-> Fill(RAM_SIZE, 0),
     stack   |-> Stack_new,
     display |-> Fill(WIDTH * HEIGHT, 0),
     v       |-> [r \in 0..15 |-> 0],
     i       |-> 0,
     pc      |-> 0,
     dt      |-> 0,
     st      |-> 0,
     panic   |-> NoPanic]

\* the machine as one value, the `self` of the methods
self == [ram |-> ram, stack |-> stack, display |-> display, v |-> v, i |-> i,
         pc |-> pc, dt |-> dt, st |-> st, panic |-> panic]

Panic(s, msg) == [s EXCEPT !.panic = msg]

\* self.pc += n on a u16
pc_add(s, n) ==
    IF s.pc + n >= U16
    THEN IF overflow_checks THEN Panic(s, AddOverflow)
         ELSE [s EXCEPT !.pc = (s.pc + n) % U16]
    ELSE [s EXCEPT !.pc = s.pc + n]

\* 00E0 - CLS
clear(s) == [s EXCEPT !.display = Fill(64 * 32, 0)]

\* 00EE - RET: todo!()
ret(s) == Panic(s, NotYetImplemented)

\* 1nnn - JP addr
jp(s, instruction) == [s EXCEPT !.pc = NNN(instruction)]

\* 2nnn - CALL addr: self.stack.sp += 1; self.stack.push(self.pc); self.pc = nnn
call(s, instruction) ==
    LET s1 == [s EXCEPT !.stack.sp = s.stack.sp + 1]
        r  == push(s1.stack, s1.pc)
    IN  IF r.panic # NoPanic
        THEN Panic([s1 EXCEPT !.stack = r.stack], r.panic)
        ELSE [s1 EXCEPT !.stack = r.stack, !.pc = NNN(instruction)]

\* 3xkk - SE Vx, byte
s_e_byte(s, instruction) ==
    LET x  == X(instruction)
        kk == KK(instruction)
    IN  IF s.v[x] = kk THEN pc_add(s, 2) ELSE s

\* 4xkk - SNE Vx, byte
s_n_e_byte(s, instruction) ==
    LET x  == X(instruction)
        kk == KK(instruction)
    IN  IF s.v[x] # kk THEN pc_add(s, 2) ELSE s

\* 5xy0 - SE Vx, Vy
s_e_register(s, instruction) ==
    IF BitAnd(instruction, 15) # 0
    THEN Panic(s, OpCodeDoesNotExist)
    ELSE LET x == X(instruction)
             y == Y(instruction)
         IN  IF s.v[x] = s.v[y] THEN pc_add(s, 2) ELSE s

\* 6xkk - LD Vx, byte
load_byte(s, instruction) ==
    LET x  == X(instruction)
        kk == KK(instruction)
    IN  [s EXCEPT !.v[x] = kk]

\* 7xkk - ADD Vx, byte: self.v[x] += kk
add_byte(s, instruction) ==
    LET x   == X(instruction)
        kk  == KK(instruction)
        sum == s.v[x] + kk
    IN  IF sum >= U8 /\ overflow_checks
        THEN Panic(s, AddOverflow)
        ELSE [s EXCEPT !.v[x] = sum % U8]

\* 8xy0 - LD Vx, Vy
ld(s, instruction) ==
    LET x == X(instruction)
        y == Y(instruction)
    IN  [s EXCEPT !.v[x] = s.v[y]]

\* or that also resets VF
or_flag(s, instruction) ==
    LET x == X(instruction)
        y == Y(instruction)
    IN  [s EXCEPT !.v = [[s.v EXCEPT ![x] = BitOr(s.v[x], s.v[y])] EXCEPT ![15] = 0]]

\* 8xy1 - OR Vx, Vy
or(s, instruction) ==
    LET x == X(instruction)
        y == Y(instruction)
    IN  [s EXCEPT !.v[x] = BitOr(s.v[x], s.v[y])]

\* 8xy2 - AND Vx, Vy
and(s, instruction) ==
    LET x == X(instruction)
        y == Y(instruction)
    IN  [s EXCEPT !.v[x] = BitAnd(s.v[x], s.v[y])]

\* 8xy3 - XOR Vx, Vy
xor(s, instruction) ==
    LET x == X(instruction)
        y == Y(instruction)
    IN  [s EXCEPT !.v[x] = BitXor(s.v[x], s.v[y])]

\* 8xy4 - ADD Vx, Vy: both branches set VF = 1; on carry Vx = sum >> 4
add(s, instruction) ==
    LET x   == X(instruction)
        y   == Y(instruction)
        sum == s.v[x] + s.v[y]
    IN  IF sum > 255
        THEN [s EXCEPT !.v = [[s.v EXCEPT ![x] = Shr(sum, 4)] EXCEPT ![15] = 1]]
        ELSE [s EXCEPT !.v = [[s.v EXCEPT ![x] = sum] EXCEPT ![15] = 1]]

\* 8xy5 - SUB Vx, Vy: VF is written first, then v[x] - v[y] is read and computed
sub(s, instruction) ==
    LET x  == X(instruction)
        y  == Y(instruction)
        s1 == [s EXCEPT !.v[15] = IF s.v[x] > s.v[y] THEN 1 ELSE 0]
        d  == s1.v[x] - s1.v[y]
    IN  IF d < 0 /\ overflow_checks
        THEN Panic(s1, SubOverflow)
        ELSE [s1 EXCEPT !.v[x] = d % U8]

\* 8xy6 - SHR Vx
shr(s, instruction) ==
    LET x  == X(instruction)
        s1 == [s EXCEPT !.v[15] = BitAnd(s.v[x], 1)]
    IN  [s1 EXCEPT !.v[x] = Shr(s1.v[x], 1)]

\* 8xy7 - SUBN Vx, Vy
subn(s, instruction) == sub(s, swap_hex_digits(instruction, 1, 2))

\* shl that shifts first and takes VF from the shifted value
shl_late(s, instruction) ==
    LET x  == X(instruction)
        s1 == [s EXCEPT !.v[x] = Shl8(s.v[x], 1)]
    IN  [s1 EXCEPT !.v[15] = Shr(s1.v[x], 7)]

\* 8xyE - SHL Vx
shl(s, instruction) ==
    LET x  == X(instruction)
        s1 == [s EXCEPT !.v[15] = Shr(s.v[x], 7)]
    IN  [s1 EXCEPT !.v[x] = Shl8(s1.v[x], 1)]

\* 9xy0 - SNE Vx, Vy: the low nibble is not examined
s_n_e(s, instruction) ==
    LET x == X(instruction)
        y == Y(instruction)
    IN  IF s.v[x] # s.v[y] THEN pc_add(s, 2) ELSE s

\* Annn, Bnnn, Cxkk, Dxyn, Ex9E, ExA1, Fx07 .. Fx65: todo!()
ld_i(s, instruction) == Panic(s, NotYetImplemented)

jp_v0(s, instruction) == Panic(s, NotYetImplemented)

rnd(s, instruction) == Panic(s, NotYetImplemented)

drw(s, instruction) == Panic(s, NotYetImplemented)

skp(s, instruction) == Panic(s, NotYetImplemented)

sknp(s, instruction) == Panic(s, NotYetImplemented)

ld_reg_dt(s, instruction) == Panic(s, NotYetImplemented)

ld_wait(s, instruction) == Panic(s, NotYetImplemented)

ld_dt_reg(s, instruction) == Panic(s, NotYetImplemented)

ld_st(s, instruction) == Panic(s, NotYetImplemented)

add_i(s, instruction) == Panic(s, NotYetImplemented)

ld_loc(s, instruction) == Panic(s, NotYetImplemented)

ld_bcd(s, instruction) == Panic(s, NotYetImplemented)

store_regs(s, instruction) == Panic(s, NotYetImplemented)

read_regs(s, instruction) == Panic(s, NotYetImplemented)

\* the match of Architecture::execute
dispatch(s, instruction) ==
    LET hi  == instruction \div 4096
        lo  == BitAnd(instruction, 15)
        lo8 == BitAnd(instruction, 255)
    IN  CASE instruction = 224 -> clear(s)
          [] instruction = 238 -> ret(s)
          [] hi = 1  -> jp(s, instruction)
          [] hi = 2  -> call(s, instruction)
          [] hi = 3  -> s_e_byte(s, instruction)
          [] hi = 4  -> s_n_e_byte(s, instruction)
          [] hi = 5  -> s_e_register(s, instruction)
          [] hi = 6  -> load_byte(s, instruction)
          [] hi = 7  -> add_byte(s, instruction)
          [] hi = 8  ->
               CASE lo = 0  -> ld(s, instruction)
                 [] lo = 1  -> or(s, instruction)
                 [] lo = 2  -> and(s, instruction)
                 [] lo = 3  -> xor(s, instruction)
                 [] lo = 4  -> add(s, instruction)
                 [] lo = 5  -> sub(s, instruction)
                 [] lo = 6  -> shr(s, instruction)
                 [] lo = 7  -> subn(s, instruction)
                 [] lo = 14 -> shl(s, instruction)
                 [] OTHER   -> Panic(s, OpCodeDoesNotExist)
          [] hi = 9  -> s_n_e(s, instruction)
          [] hi = 10 -> ld_i(s, instruction)
          [] hi = 11 -> jp_v0(s, instruction)
          [] hi = 12 -> rnd(s, instruction)
          [] hi = 13 -> drw(s, instruction)
          [] hi = 14 ->
               CASE lo8 = 158 -> skp(s, instruction)
                 [] lo8 = 161 -> sknp(s, instruction)
                 [] OTHER     -> Panic(s, OpCodeDoesNotExist)
          [] hi = 15 ->
               CASE lo8 = 7   -> ld_reg_dt(s, instruction)
                 [] lo8 = 10  -> ld_wait(s, instruction)
                 [] lo8 = 21  -> ld_dt_reg(s, instruction)
                 [] lo8 = 24  -> ld_st(s, instruction)
                 [] lo8 = 30  -> add_i(s, instruction)
                 [] lo8 = 41  -> ld_loc(s, instruction)
                 [] lo8 = 51  -> ld_bcd(s, instruction)
                 [] lo8 = 85  -> store_regs(s, instruction)
                 [] lo8 = 101 -> read_regs(s, instruction)
                 [] OTHER     -> Panic(s, OpCodeDoesNotExist)
          [] OTHER -> Panic(s, OpCodeDoesNotExist)

\* Architecture::execute on a fetched word: the match, then self.pc += 1
execute(s, instruction) ==
    LET r == dispatch(s, instruction)
    IN  IF r.panic # NoPanic THEN r ELSE pc_add(r, 1)

(***************************************************************************)
(* Inputs                                                                  *)
(***************************************************************************)
\* the instruction words a ROM is made of
Words ==
    { 224,      \* 00E0
      238,      \* 00EE
      4096,     \* 1000
      8192,     \* 2000
      12288,    \* 3000
      16384,    \* 4000
      20496,    \* 5010
      24577,    \* 6001
      24586,    \* 600A
      24831,    \* 60FF
      24833,    \* 6101
      24837,    \* 6105
      28673,    \* 7001
      28927,    \* 70FF
      32784,    \* 8010
      32785,    \* 8011
      32786,    \* 8012
      32787,    \* 8013
      32788,    \* 8014
      32789,    \* 8015
      33029,    \* 8105
      33013,    \* 80F5
      32790,    \* 8016
      32791,    \* 8017
      33031,    \* 8107
      32798,    \* 801E
      36880,    \* 9010
      36881,    \* 9011
      291,      \* 0123
      20497,    \* 5011
      32792,    \* 8018
      57344,    \* E000
      61440,    \* F000
      65535,    \* FFFF
      40960,    \* A000
      53249,    \* D001
      57005,    \* DEAD
      61450 }   \* F00A

\* the addresses handed to Stack::push directly
Addrs == { 512, 514 }

NoInstruction == 0 - 1

\* the history entry of a step that fetches `ins`: the state before the step
Snapshot(ins) ==
    [ins |-> ins, v |-> v, pc |-> pc, stack |-> stack, display |-> display,
     i |-> i, dt |-> dt, st |-> st, ram |-> ram]

\* the ROM is handed over as instruction words: no file is read
NoFile == [bytes |-> <<>>, read |-> FALSE]

\* a history extended by one entry; it keeps the last two entries
Remember(h, e) == IF Len(h) < 2 THEN Append(h, e) ELSE <<h[Len(h)], e>>

(***************************************************************************)
(* The machine driven by repeated calls of Architecture::execute           *)
(***************************************************************************)
Init ==
    /\ ram = Architecture_new.ram
    /\ stack = Architecture_new.stack
    /\ display = Architecture_new.display
    /\ v = Architecture_new.v
    /\ i = Architecture_new.i
    /\ pc = Architecture_new.pc
    /\ dt = Architecture_new.dt
    /\ st = Architecture_new.st
    /\ panic = Architecture_new.panic
    /\ exited = FALSE
    /\ file = NoFile
    /\ rom = [a \in {} |-> 0]
    /\ rom_len \in 0..MaxRomLen
    /\ overflow_checks \in BOOLEAN
    /\ hist = <<>>
    /\ calls = <<>>
    /\ net = 0
    /\ shadow = <<>>

\* one call of Architecture::execute(&mut self, rom): rom[self.pc as usize]
\* panics when pc is outside the ROM; a word of the ROM is fixed when it is
\* first fetched
Execute ==
    /\ ~Ended
    /\ IF pc >= rom_len
       THEN /\ panic' = IndexOutOfBounds
            /\ hist' = Remember(hist, Snapshot(NoInstruction))
            /\ UNCHANGED <<ram, stack, display, v, i, pc, dt, st, rom>>
       ELSE \E instruction \in (IF pc \in DOMAIN rom THEN {rom[pc]} ELSE Words) :
              \E r \in {execute(self, instruction)} :
                  /\ rom' = [a \in DOMAIN rom \cup {pc} |->
                                IF a = pc THEN instruction ELSE rom[a]]
                  /\ ram' = r.ram
                  /\ stack' = r.stack
                  /\ display' = r.display
                  /\ v' = r.v
                  /\ i' = r.i
                  /\ pc' = r.pc
                  /\ dt' = r.dt
                  /\ st' = r.st
                  /\ panic' = r.panic
                  /\ hist' = Remember(hist, Snapshot(instruction))
    /\ UNCHANGED <<rom_len, overflow_checks, exited, file>>
    /\ UNCHANGED stack_hist

Next == Execute

Spec == Init /\ [][Next]_vars

(***************************************************************************)
(* A Stack used on its own: Stack::new(), then push and pop calls.  No      *)
(* Architecture exists here: its fields are empty and never change.        *)
(***************************************************************************)
InitStack ==
    /\ stack = Stack_new
    /\ panic = NoPanic
    /\ exited = FALSE
    /\ file = NoFile
    /\ calls = <<>>
    /\ net = 0
    /\ shadow = <<>>
    /\ ram = <<>>
    /\ display = <<>>
    /\ v = <<>>
    /\ i = 0
    /\ pc = 0
    /\ dt = 0
    /\ st = 0
    /\ rom = [a \in {} |-> 0]
    /\ rom_len = 0
    /\ overflow_checks \in BOOLEAN
    /\ hist = <<>>

\* stack.push(value)
StackPush(value) ==
    /\ ~Ended
    /\ \E r \in {push(stack, value)} :
           /\ stack' = r.stack
           /\ panic' = r.panic
           /\ calls' = Remember(calls, [op |-> "push", arg |-> value, before |-> stack,
                                     result |-> None, expect |-> None])
           /\ net' = IF r.panic = NoPanic THEN net + 1 ELSE net
           /\ shadow' = IF r.panic = NoPanic THEN Append(shadow, value) ELSE shadow
    /\ UNCHANGED arch_vars

\* stack.pop()
StackPop ==
    /\ ~Ended
    /\ \E r \in {pop(stack)} :
           /\ stack' = r.stack
           /\ calls' = Remember(calls, [op |-> "pop", arg |-> 0, before |-> stack,
                                     result |-> r.result,
                                     expect |-> IF shadow = <<>> THEN None
                                                ELSE Some(shadow[Len(shadow)])])
           /\ net' = IF r.result # None THEN net - 1 ELSE net
           /\ shadow' = IF shadow = <<>> THEN shadow ELSE SubSeq(shadow, 1, Len(shadow) - 1)
    /\ UNCHANGED panic
    /\ UNCHANGED arch_vars

NextStack == (\E value \in Addrs : StackPush(value)) \/ StackPop

SpecStack == InitStack /\ [][NextStack]_vars

(***************************************************************************)
(* main.rs: the program that is run.  It has its own Architecture, Stack,  *)
(* OpCodes and execute.  main keeps the registers `v`, the `stack` and     *)
(* `ram` in locals of its own; `arch` holds display, i, pc, dt, st and a   *)
(* second register array arch.v that nothing reads or writes after         *)
(* Architecture::new().  Stack in main.rs has the fields and the push of   *)
(* stack.rs.                                                               *)
(***************************************************************************)
\* arch after `Architecture::new()` and `arch.display = [1; WIDTH*HEIGHT]`,
\* and the locals ram, v and stack of main
main_new ==
    [ram     |-> Fill(4096, 0),
     stack   |-> Stack_new,
     display |-> Fill(WIDTH * HEIGHT, 1),
     v       |-> [r \in 0..15 |-> 0],
     i       |-> 0,
     pc      |-> 0,
     dt      |-> 0,
     st      |-> 0,
     panic   |-> NoPanic,
     exited  |-> FALSE]

\* main's locals and arch as one value
main_self == [ram |-> ram, stack |-> stack, display |-> display, v |-> v, i |-> i,
              pc |-> pc, dt |-> dt, st |-> st, panic |-> panic, exited |-> exited]

\* cls that clears the first row of the display only
OpCodes_cls_row(s) ==
    [s EXCEPT !.display = [k \in {d \in DOMAIN s.display : d >= WIDTH} |-> s.display[k]]]

\* OpCodes::cls(&mut arch.display): *display = [0u8; 64*32]
OpCodes_cls(s) == [s EXCEPT !.display = Fill(64 * 32, 0)]

\* OpCodes::jp(arch, nnn)
OpCodes_jp(s, nnn) == [s EXCEPT !.pc = nnn]

\* OpCodes::call(arch, stack, nnn): `stack` is a copy of main's stack (Stack
\* is Copy and is passed by value); the copy is changed and dropped
OpCodes_call(s, nnn) ==
    LET copy == [s.stack EXCEPT !.sp = s.stack.sp + 1]
        r    == push(copy, s.pc)
    IN  IF r.panic # NoPanic THEN Panic(s, r.panic) ELSE [s EXCEPT !.pc = nnn]

\* OpCodes::load_byte(v, arch, x, kk): `v` is a copy of main's array (passed
\* by value); v[x] = kk changes the copy, which is dropped
OpCodes_load_byte(s, x, kk) ==
    LET copy == [s.v EXCEPT ![x] = kk]
    IN  s

\* OpCodes::exit(): process::exit(0)
OpCodes_exit(s) == [s EXCEPT !.exited = TRUE]

\* the match of execute in main.rs
main_dispatch(s, instruction) ==
    CASE instruction = 224 -> OpCodes_cls(s)
      [] instruction \in 4096..8191  -> OpCodes_jp(s, instruction % 4096)
      [] instruction \in 8192..12287 -> OpCodes_call(s, instruction % 4096)
      [] instruction \in 24576..28671 ->
           OpCodes_load_byte(s, Shr(BitAnd(instruction, 3840), 8), BitAnd(instruction, 255))
      [] instruction = 57005 -> OpCodes_exit(s)
      [] OTHER -> Panic(s, OpCodeDoesNotExist)

\* execute in main.rs on a fetched word: the match, then arch.pc += 1
main_execute(s, instruction) ==
    LET r == main_dispatch(s, instruction)
    IN  IF r.panic # NoPanic \/ r.exited THEN r ELSE pc_add(r, 1)

InitMain ==
    /\ ram = main_new.ram
    /\ stack = main_new.stack
    /\ display = main_new.display
    /\ v = main_new.v
    /\ i = main_new.i
    /\ pc = main_new.pc
    /\ dt = main_new.dt
    /\ st = main_new.st
    /\ panic = main_new.panic
    /\ exited = main_new.exited
    /\ file = NoFile
    /\ rom = [a \in {} |-> 0]
    /\ rom_len \in 0..MaxRomLen
    /\ overflow_checks \in BOOLEAN
    /\ hist = <<>>
    /\ calls = <<>>
    /\ net = 0
    /\ shadow = <<>>

\* one turn of the loop of main: rom[arch.pc as usize] panics when pc is
\* outside the ROM; a word of the ROM is fixed when it is first fetched
MainLoop ==
    /\ ~Ended
    /\ IF pc >= rom_len
       THEN /\ panic' = IndexOutOfBounds
            /\ hist' = Remember(hist, Snapshot(NoInstruction))
            /\ UNCHANGED <<ram, stack, display, v, i, pc, dt, st, rom, exited>>
       ELSE \E instruction \in (IF pc \in DOMAIN rom THEN {rom[pc]} ELSE Words) :
              \E r \in {main_execute(main_self, instruction)} :
                  /\ rom' = [a \in DOMAIN rom \cup {pc} |->
                                IF a = pc THEN instruction ELSE rom[a]]
                  /\ ram' = r.ram
                  /\ stack' = r.stack
                  /\ display' = r.display
                  /\ v' = r.v
                  /\ i' = r.i
                  /\ pc' = r.pc
                  /\ dt' = r.dt
                  /\ st' = r.st
                  /\ panic' = r.panic
                  /\ exited' = r.exited
                  /\ hist' = Remember(hist, Snapshot(instruction))
    /\ UNCHANGED <<rom_len, overflow_checks, file>>
    /\ UNCHANGED stack_hist

NextMain == MainLoop

SpecMain == InitMain /\ [][NextMain]_vars

(***************************************************************************)
(* Architecture::execute driven through a long ROM: LongRomLen words, all  *)
(* the same word of LongRomWords.  `rom` does not record them.             *)
(***************************************************************************)
\* the words a long ROM is filled with
LongRomWords == { 224 }   \* 00E0

InitLong ==
    /\ ram = Architecture_new.ram
    /\ stack = Architecture_new.stack
    /\ display = Architecture_new.display
    /\ v = Architecture_new.v
    /\ i = Architecture_new.i
    /\ pc = Architecture_new.pc
    /\ dt = Architecture_new.dt
    /\ st = Architecture_new.st
    /\ panic = Architecture_new.panic
    /\ exited = FALSE
    /\ file = NoFile
    /\ rom = [a \in {} |-> 0]
    /\ rom_len = LongRomLen
    /\ overflow_checks \in BOOLEAN
    /\ hist = <<>>
    /\ calls = <<>>
    /\ net = 0
    /\ shadow = <<>>

\* one call of Architecture::execute(&mut self, rom) with rom = vec![word; rom_len]
ExecuteLong ==
    /\ ~Ended
    /\ IF pc >= rom_len
       THEN /\ panic' = IndexOutOfBounds
            /\ hist' = Remember(hist, Snapshot(NoInstruction))
            /\ UNCHANGED <<ram, stack, display, v, i, pc, dt, st>>
       ELSE \E instruction \in LongRomWords :
              \E r \in {execute(self, instruction)} :
                  /\ ram' = r.ram
                  /\ stack' = r.stack
                  /\ display' = r.display
                  /\ v' = r.v
                  /\ i' = r.i
                  /\ pc' = r.pc
                  /\ dt' = r.dt
                  /\ st' = r.st
                  /\ panic' = r.panic
                  /\ hist' = Remember(hist, Snapshot(instruction))
    /\ UNCHANGED <<rom, rom_len, overflow_checks, exited, file>>
    /\ UNCHANGED stack_hist

NextLong == ExecuteLong

SpecLong == InitLong /\ [][NextLong]_vars

(***************************************************************************)
(* Architecture::execute driven through the ROMs  6 0 kk, 6 1 kk', shift:  *)
(* V0 is loaded with every byte value, V1 with one of two values, and the  *)
(* third word is an 8xy6 or an 8xyE.                                       *)
(***************************************************************************)
\* the third word of the ROM
ShiftWords ==
    { 32774,    \* 8006
      32790,    \* 8016
      33030,    \* 8106
      33014,    \* 80F6
      32782,    \* 800E
      32798,    \* 801E
      33038,    \* 810E
      33022 }   \* 80FE

\* the bytes loaded into V1
OtherBytes == { 0, 165 }

InitShift ==
    /\ ram = Architecture_new.ram
    /\ stack = Architecture_new.stack
    /\ display = Architecture_new.display
    /\ v = Architecture_new.v
    /\ i = Architecture_new.i
    /\ pc = Architecture_new.pc
    /\ dt = Architecture_new.dt
    /\ st = Architecture_new.st
    /\ panic = Architecture_new.panic
    /\ exited = FALSE
    /\ file = NoFile
    /\ \E kk \in 0..(U8 - 1), k1 \in OtherBytes, w \in ShiftWords :
           rom = [a \in 0..2 |-> IF a = 0 THEN 24576 + kk
                                  ELSE IF a = 1 THEN 24832 + k1
                                  ELSE w]
    /\ rom_len = 3
    /\ overflow_checks \in BOOLEAN
    /\ hist = <<>>
    /\ calls = <<>>
    /\ net = 0
    /\ shadow = <<>>

SpecShift == InitShift /\ [][Next]_vars

(***************************************************************************)
(* main.rs from its start: init_rom reads the ROM file into instruction    *)
(* words, then the loop of main runs on them.  The locals and arch, which  *)
(* main creates after init_rom, have their first values from the start.    *)
(***************************************************************************)
\* the bytes a ROM file is made of
FileBytes == { 0, 1, 96, 224 }

\* all ROM files of up to MaxFileLen bytes
Files == UNION {[1..n -> FileBytes] : n \in 0..MaxFileLen}

\* slice::chunks_exact(n): the complete chunks of n elements; a shorter rest
\* is left out
chunks_exact(b, n) == [k \in 1..(Len(b) \div n) |-> SubSeq(b, (k - 1) * n + 1, k * n)]

\* u16::from_be_bytes: the first byte is the high byte
from_be_bytes(pair) == 256 * pair[1] + pair[2]

\* u16::from_le_bytes: the first byte is the low byte
from_le_bytes(pair) == pair[1] + 256 * pair[2]

\* init_rom: rom.chunks_exact(2).map(|chunk| u16::from_le_bytes([chunk[1], chunk[0]]))
init_rom(bytes) ==
    LET chunks == chunks_exact(bytes, 2)
    IN  [k \in 1..Len(chunks) |-> from_le_bytes(<<chunks[k][2], chunks[k][1]>>)]

InitLoad ==
    /\ ram = main_new.ram
    /\ stack = main_new.stack
    /\ display = main_new.display
    /\ v = main_new.v
    /\ i = main_new.i
    /\ pc = main_new.pc
    /\ dt = main_new.dt
    /\ st = main_new.st
    /\ panic = main_new.panic
    /\ exited = main_new.exited
    /\ \E bytes \in Files : file = [bytes |-> bytes, read |-> FALSE]
    /\ rom = [a \in {} |-> 0]
    /\ rom_len = 0
    /\ overflow_checks \in BOOLEAN
    /\ hist = <<>>
    /\ calls = <<>>
    /\ net = 0
    /\ shadow = <<>>

\* let rom = init_rom(args[1].as_str()): word k of the Vec is rom[k]
MainInitRom ==
    /\ ~Ended
    /\ ~file.read
    /\ \E words \in {init_rom(file.bytes)} :
           /\ rom' = [a \in 0..(Len(words) - 1) |-> words[a + 1]]
           /\ rom_len' = Len(words)
    /\ file' = [file EXCEPT !.read = TRUE]
    /\ UNCHANGED <<ram, stack, display, v, i, pc, dt, st, panic, exited,
                   overflow_checks, hist>>
    /\ UNCHANGED stack_hist

\* a turn of the loop of main, which starts after init_rom has returned
MainLoopLoaded == file.read /\ MainLoop

NextLoad == MainInitRom \/ MainLoopLoaded

SpecLoad == InitLoad /\ [][NextLoad]_vars

(***************************************************************************)
(* Architecture::execute driven through the ROMs  6 0 kk, 6 F kk', word:   *)
(* V0 is loaded with every byte value, VF with one of LogicBytes, and the  *)
(* third word is a 6xkk or an 8xy0 .. 8xy3.                                *)
(***************************************************************************)
\* the third word of the ROM
LogicWords ==
    { 24997,    \* 61A5
      24576,    \* 6000
      33008,    \* 80F0
      33009,    \* 80F1
      33010,    \* 80F2
      33011,    \* 80F3
      33024,    \* 8100
      33025,    \* 8101
      32769,    \* 8001
      32771,    \* 8003
      36594 }   \* 8EF2

\* the bytes loaded into VF
LogicBytes == { 0, 1, 60, 255 }

InitLogic ==
    /\ ram = Architecture_new.ram
    /\ stack = Architecture_new.stack
    /\ display = Architecture_new.display
    /\ v = Architecture_new.v
    /\ i = Architecture_new.i
    /\ pc = Architecture_new.pc
    /\ dt = Architecture_new.dt
    /\ st = Architecture_new.st
    /\ panic = Architecture_new.panic
    /\ exited = FALSE
    /\ file = NoFile
    /\ \E kk \in 0..(U8 - 1), k1 \in LogicBytes, w \in LogicWords :
           rom = [a \in 0..2 |-> IF a = 0 THEN 24576 + kk
                                  ELSE IF a = 1 THEN 28416 + k1
                                  ELSE w]
    /\ rom_len = 3
    /\ overflow_checks \in BOOLEAN
    /\ hist = <<>>
    /\ calls = <<>>
    /\ net = 0
    /\ shadow = <<>>

SpecLogic == InitLogic /\ [][Next]_vars

(***************************************************************************)
(* Properties                                                              *)
(***************************************************************************)
\* the step executed last, and the one before it
LastStep == hist[Len(hist)]

PrevStep == hist[Len(hist) - 1]

\* the last direct Stack call, and the one before it
LastCall == calls[Len(calls)]

PrevCall == calls[Len(calls) - 1]

\* the last step fetched a word of the family whose high nibble is `op`
Fetched(op) == hist # <<>> /\ LastStep.ins >= 0 /\ LastStep.ins \div 4096 = op

\* the last step fetched a word 8xyN with low nibble n
Fetched8(n) == Fetched(8) /\ LastStep.ins % 16 = n

\* C1: a 2nnn at address a followed, as the very next executed instruction, by
\* 00EE leaves program_counter at a plus one instruction and the stack at the
\* depth it had before the 2nnn; the instruction executed right after the 2nnn
\* is the one at nnn.
C1_CallThenRet ==
    (Len(hist) = 2 /\ hist[1].ins >= 0 /\ hist[1].ins \div 4096 = 2 /\ hist[2].ins = 238)
        => /\ panic = NoPanic
           /\ hist[2].pc = hist[1].ins % 4096
           /\ pc = hist[1].pc + 1
           /\ stack.sp = hist[1].stack.sp

\* C2: 8xy4 with x # 0xF leaves Vx = (Vx + Vy) mod 256 and VF = 1 if the sum
\* exceeds 255, else VF = 0 (Vx, Vy the values before the instruction).
C2_AddCarry ==
    (Fetched8(4) /\ X(LastStep.ins) # 15)
        => LET x   == X(LastStep.ins)
               y   == Y(LastStep.ins)
               sum == LastStep.v[x] + LastStep.v[y]
           IN  /\ panic = NoPanic
               /\ v[x] = sum % 256
               /\ v[15] = IF sum > 255 THEN 1 ELSE 0

\* C3: 8xy5 with x # 0xF (y may be 0xF) leaves VF = 1 if Vx >= Vy, else 0, and
\* Vx = (Vx - Vy) mod 256; a borrow wraps and is never a fault.
C3_SubBorrow ==
    (Fetched8(5) /\ X(LastStep.ins) # 15)
        => LET x == X(LastStep.ins)
               y == Y(LastStep.ins)
           IN  /\ panic = NoPanic
               /\ v[15] = IF LastStep.v[x] >= LastStep.v[y] THEN 1 ELSE 0
               /\ v[x] = (LastStep.v[x] - LastStep.v[y] + 256) % 256

\* C4: 8xy7 with x # 0xF, y # 0xF, x # y stores (Vy - Vx) mod 256 in Vx, sets
\* VF = 1 if Vy >= Vx else 0 and leaves Vy unchanged; the operand swap used by
\* subn exchanges exactly the x and y nibbles of the word.
C4_SubnOperands ==
    (Fetched8(7) /\ X(LastStep.ins) # 15 /\ Y(LastStep.ins) # 15
                 /\ X(LastStep.ins) # Y(LastStep.ins))
        => LET ins == LastStep.ins
               x   == X(ins)
               y   == Y(ins)
               sw  == swap_hex_digits(ins, 1, 2)
           IN  /\ panic = NoPanic
               /\ v[x] = (LastStep.v[y] - LastStep.v[x] + 256) % 256
               /\ v[15] = IF LastStep.v[y] >= LastStep.v[x] THEN 1 ELSE 0
               /\ v[y] = LastStep.v[y]
               /\ sw = (ins \div 4096) * 4096 + y * 256 + x * 16 + (ins % 16)

\* C5: 7xkk never faults and leaves Vx = (v0 + kk) mod 256 with VF unchanged
\* when x # 0xF; executed twice in a row with the same kk it leaves
\* Vx = (v0 + 2*kk) mod 256.
C5_AddByteWraps ==
    /\ Fetched(7)
         => LET x == X(LastStep.ins)
            IN  /\ panic = NoPanic
                /\ v[x] = (LastStep.v[x] + KK(LastStep.ins)) % 256
                /\ x # 15 => v[15] = LastStep.v[15]
    /\ (Fetched(7) /\ Len(hist) = 2 /\ PrevStep.ins = LastStep.ins)
         => v[X(LastStep.ins)]
              = (PrevStep.v[X(LastStep.ins)] + 2 * KK(LastStep.ins)) % 256

\* the words that match none of the opcode templates
Undefined(w) ==
    LET hi == w \div 4096
        n  == w % 16
        kk == w % 256
    IN  \/ hi = 0 /\ w # 224 /\ w # 238
        \/ hi = 5 /\ n # 0
        \/ hi = 9 /\ n # 0
        \/ hi = 8 /\ n \in (8..13) \cup {15}
        \/ hi = 14 /\ kk \notin {158, 161}
        \/ hi = 15 /\ kk \notin {7, 10, 21, 24, 30, 41, 51, 85, 101}

\* C6: a step that fetches a word matching none of the opcode templates is
\* rejected as a decode fault and leaves registers, stack, display and
\* program_counter unchanged.
C6_UnknownRejected ==
    [][(panic = NoPanic /\ pc < rom_len /\ Undefined(rom'[pc]))
          => (panic' = OpCodeDoesNotExist /\ UNCHANGED <<v, stack, display, pc>>)]_vars

\* C7: after any sequence of push and pop calls on a new Stack, sp is in
\* [0, 16] and equals the successful pushes minus the value-returning pops; a
\* push with fewer than 16 entries present succeeds, and a push with 16 present
\* signals overflow and changes neither sp nor any entry.
C7_StackPointer ==
    /\ stack.sp \in 0..STACK_SIZE
    /\ stack.sp = net
    /\ (calls # <<>> /\ LastCall.op = "push")
         => IF LastCall.before.sp < 16
            THEN /\ panic = NoPanic
                 /\ stack.sp = LastCall.before.sp + 1
            ELSE /\ panic = StackOverflow
                 /\ stack = LastCall.before

\* the 17th push onto a full stack has been attempted
C7_Witness ==
    /\ calls # <<>>
    /\ LastCall.op = "push"
    /\ LastCall.before.sp = 16
    /\ net = 16

\* C8: pop on an empty stack signals a stack-underflow fault that differs from
\* an ordinary no-value result, and leaves sp and the entries unchanged.
C8_UnderflowSignalled ==
    (calls # <<>> /\ LastCall.op = "pop" /\ LastCall.before.sp = 0)
        => /\ panic # NoPanic \/ LastCall.result # None
           /\ stack = LastCall.before

\* C9: within capacity every pop returns the most recently pushed address not
\* yet popped; push(a) directly followed by pop() returns a and restores sp
\* and every stored entry to their values before the push.
C9_Lifo ==
    /\ (calls # <<>> /\ LastCall.op = "pop") => LastCall.result = LastCall.expect
    /\ (Len(calls) = 2 /\ PrevCall.op = "push" /\ LastCall.op = "pop")
         => /\ LastCall.result = Some(PrevCall.arg)
            /\ stack = PrevCall.before

\* a push onto a non-empty stack directly followed by a pop
C9_Witness ==
    /\ Len(calls) = 2
    /\ PrevCall.op = "push"
    /\ LastCall.op = "pop"
    /\ PrevCall.before.sp > 0
    /\ PrevCall.before.memory[PrevCall.before.sp - 1] # PrevCall.arg

\* C10: a 2nnn on a non-full stack increases the depth by exactly one and
\* stores the address of the instruction after the 2nnn in the slot the next
\* pop returns; sp never exceeds 16.
C10_CallDepth ==
    /\ stack.sp <= 16
    /\ (Fetched(2) /\ LastStep.stack.sp < 16)
         => /\ panic = NoPanic
            /\ stack.sp = LastStep.stack.sp + 1
            /\ stack.memory[stack.sp - 1] = LastStep.pc + 1

\* the skip opcodes 3xkk, 4xkk, 5xy0 and 9xy0
IsSkip(w) ==
    w >= 0 /\ (w \div 4096 \in {3, 4} \/ (w \div 4096 \in {5, 9} /\ w % 16 = 0))

\* the condition of the skip opcode w on the registers r
SkipCondition(w, r) ==
    CASE w \div 4096 = 3 -> r[X(w)] = KK(w)
      [] w \div 4096 = 4 -> r[X(w)] # KK(w)
      [] w \div 4096 = 5 -> r[X(w)] = r[Y(w)]
      [] OTHER           -> r[X(w)] # r[Y(w)]

\* C11: a skip opcode (3xkk, 4xkk, 5xy0, 9xy0) executed at address a leaves
\* program_counter two instructions after a when its condition holds and one
\* instruction after a when it does not, and changes no register.
C11_SkipOne ==
    (hist # <<>> /\ IsSkip(LastStep.ins))
        => /\ panic = NoPanic
           /\ pc = LastStep.pc + (IF SkipCondition(LastStep.ins, LastStep.v) THEN 2 ELSE 1)
           /\ v = LastStep.v

\* C12: after a step that executes 1nnn, program_counter equals nnn.
C12_JumpTarget ==
    Fetched(1) => (panic = NoPanic /\ pc = LastStep.ins % 4096)

Sequential == hist # <<>> /\ LastStep.ins >= 0 /\ LastStep.ins \div 4096 \notin {1, 2}

\* C14: a step requested when program_counter is outside the program ends in
\* an out-of-bounds fault without reading a word and without changing the
\* machine state; a step is executed only with program_counter inside the
\* program; program_counter never wraps around its 16-bit range: a step that
\* is neither a jump nor a call and does not end in a fault leaves it larger.
C14_FetchInBounds ==
    /\ (hist # <<>> /\ LastStep.pc >= rom_len)
         => /\ LastStep.ins = NoInstruction
            /\ panic = IndexOutOfBounds
            /\ <<v, pc, stack, display, i, dt, st>>
                 = <<LastStep.v, LastStep.pc, LastStep.stack, LastStep.display,
                     LastStep.i, LastStep.dt, LastStep.st>>
    /\ (hist # <<>> /\ LastStep.pc < rom_len) => LastStep.ins # NoInstruction
    /\ (Sequential /\ panic = NoPanic) => pc > LastStep.pc

\* the last step fetched Fx0A
FetchedWait == Fetched(15) /\ LastStep.ins % 256 = 10

\* C15: executing Fx0A makes the engine wait for a key instead of faulting;
\* while it waits, program_counter and all registers stay as they were before
\* the Fx0A.
C15_WaitForKey ==
    FetchedWait => (panic = NoPanic /\ pc = LastStep.pc /\ v = LastStep.v)

\* the sprite of the Dxyn word w, the bytes ram[i] .. ram[i + n - 1], has a set bit
SpriteSet(w) == \E k \in 0..((w % 16) - 1) : (i + k) \in DOMAIN ram

\* C16: Dxyn does not fault; the first draw on an all-zero display leaves
\* VF = 0, and a second draw of the same sprite at the same place, directly
\* after it, leaves the display all-zero again with VF = 1 when the sprite has
\* a set bit.
C16_DrawTwice ==
    /\ Fetched(13) => panic = NoPanic
    /\ (Fetched(13) /\ LastStep.display = Fill(WIDTH * HEIGHT, 0)) => v[15] = 0
    /\ (Fetched(13) /\ Len(hist) = 2 /\ PrevStep.ins = LastStep.ins
            /\ PrevStep.display = Fill(WIDTH * HEIGHT, 0))
         => /\ display = Fill(WIDTH * HEIGHT, 0)
            /\ SpriteSet(LastStep.ins) => v[15] = 1

\* C17: no instruction word executed by execute of main.rs ends the process
\* from inside the core: after every step the process has not exited, and a
\* word that is not executed ends in a fault; in particular 0xDEAD.
C17_NoProcessExit ==
    /\ ~exited
    /\ (hist # <<>> /\ LastStep.ins = 57005) => panic # NoPanic

\* the registers other than Vx and VF are as before the last step
OthersKept(x) == \A r \in 0..14 : r # x => v[r] = LastStep.v[r]

\* C18: for x # 0xF and every value val of Vx before the instruction, 8xy6
\* leaves VF = val mod 2 and Vx = floor(val / 2), and 8xyE leaves
\* VF = floor(val / 128) and Vx = (2 * val) mod 256; neither faults, and the
\* registers other than Vx and VF are unchanged.
C18_Shifts ==
    /\ (Fetched8(6) /\ X(LastStep.ins) # 15)
         => LET x   == X(LastStep.ins)
                val == LastStep.v[x]
            IN  /\ panic = NoPanic
                /\ v[15] = val % 2
                /\ v[x] = val \div 2
                /\ OthersKept(x)
    /\ (Fetched8(14) /\ X(LastStep.ins) # 15)
         => LET x   == X(LastStep.ins)
                val == LastStep.v[x]
            IN  /\ panic = NoPanic
                /\ v[15] = val \div 128
                /\ v[x] = (2 * val) % 256
                /\ OthersKept(x)

\* 8xyE has shifted a value with bit 7 set and bit 6 clear out of V0 while V1
\* held a non-zero value
C18_Witness ==
    /\ Fetched8(14)
    /\ X(LastStep.ins) = 0
    /\ LastStep.v[0] \in 128..191
    /\ LastStep.v[1] # 0
    /\ v[15] = 1

\* C19: before the first instruction is executed every general register, the
\* index register, both timers, every stack slot, the stack pointer and every
\* display pixel are zero and program_counter is the load address 0; the first
\* instruction fetched is the first one of the program.
C19_InitialState ==
    /\ hist = <<>>
         => /\ v = [r \in 0..15 |-> 0]
            /\ i = 0
            /\ dt = 0
            /\ st = 0
            /\ stack = [memory |-> [k \in 0..(STACK_SIZE - 1) |-> 0], sp |-> 0]
            /\ display = Fill(WIDTH * HEIGHT, 0)
            /\ pc = 0
    /\ Len(hist) = 1 => LastStep.pc = 0

\* C20: 00E0 leaves every pixel 0, leaves registers, index, timers and stack
\* unchanged and advances program_counter by one instruction; executed a
\* second time it changes nothing on the display.
C20_ClearDisplay ==
    /\ (hist # <<>> /\ LastStep.ins = 224)
         => /\ panic = NoPanic
            /\ display = Fill(WIDTH * HEIGHT, 0)
            /\ \A p \in 0..(WIDTH * HEIGHT - 1) : p \notin DOMAIN display
            /\ <<v, i, dt, st, stack>>
                 = <<LastStep.v, LastStep.i, LastStep.dt, LastStep.st, LastStep.stack>>
            /\ pc = LastStep.pc + 1
    /\ (Len(hist) = 2 /\ PrevStep.ins = 224 /\ LastStep.ins = 224)
         => display = LastStep.display

\* 00E0 has been executed twice in a row, the first time on a display with
\* every pixel set
C20_Witness ==
    /\ Len(hist) = 2
    /\ PrevStep.ins = 224
    /\ LastStep.ins = 224
    /\ PrevStep.display = Fill(WIDTH * HEIGHT, 1)
    /\ panic = NoPanic

\* C21: in the loop of main.rs registers and call stack persist across steps:
\* after a step executes 6xkk, Vx holds kk, and still does after a following
\* step that is not a 6xkk; after a step executes 2nnn the stack is one entry
\* deeper and its top entry is the return address.
C21_StatePersists ==
    /\ Fetched(6) => v[X(LastStep.ins)] = KK(LastStep.ins)
    /\ (Len(hist) = 2 /\ PrevStep.ins >= 0 /\ PrevStep.ins \div 4096 = 6
            /\ LastStep.ins >= 0 /\ LastStep.ins \div 4096 # 6)
         => v[X(PrevStep.ins)] = KK(PrevStep.ins)
    /\ (Fetched(2) /\ panic = NoPanic)
         => /\ stack.sp = LastStep.stack.sp + 1
            /\ stack.memory[stack.sp - 1] \in {LastStep.pc, LastStep.pc + 1}

\* C22: for a ROM file b of any length init_rom yields floor(len(b) / 2)
\* words, word k being 256 * b[2k] + b[2k+1] (bytes counted from 0); a
\* trailing odd byte is dropped; the word a step fetches at program_counter k
\* is word k.
C22_BigEndianWords ==
    file.read
        => /\ rom_len = Len(file.bytes) \div 2
           /\ DOMAIN rom = 0..(rom_len - 1)
           /\ \A k \in 0..(rom_len - 1) :
                  rom[k] = 256 * file.bytes[2 * k + 1] + file.bytes[2 * k + 2]
           /\ (hist # <<>> /\ LastStep.ins # NoInstruction)
                => /\ LastStep.pc < rom_len
                   /\ LastStep.ins = 256 * file.bytes[2 * LastStep.pc + 1]
                                       + file.bytes[2 * LastStep.pc + 2]

\* a file of odd length has been read and the step at program_counter 1 has
\* fetched a word whose two bytes differ
C22_Witness ==
    /\ file.read
    /\ Len(file.bytes) % 2 = 1
    /\ hist # <<>>
    /\ LastStep.pc = 1
    /\ LastStep.ins >= 0
    /\ file.bytes[3] # file.bytes[4]

\* the last step fetched 6xkk, 8xy0, 8xy1, 8xy2 or 8xy3
FetchedLogic == Fetched(6) \/ (Fetched(8) /\ LastStep.ins % 16 \in 0..3)

\* the value 6xkk, 8xy0, 8xy1, 8xy2 and 8xy3 store in Vx, from the registers r
Stored(w, r) ==
    CASE w \div 4096 = 6 -> KK(w)
      [] w % 16 = 0      -> r[Y(w)]
      [] w % 16 = 1      -> BitOr(r[X(w)], r[Y(w)])
      [] w % 16 = 2      -> BitAnd(r[X(w)], r[Y(w)])
      [] OTHER           -> BitXor(r[X(w)], r[Y(w)])

\* C23: a step that executes 6xkk, 8xy0, 8xy1, 8xy2 or 8xy3 writes Vx (kk,
\* Vy, Vx|Vy, Vx&Vy, Vx^Vy) and advances program_counter by one instruction;
\* every other register, VF included, the index register, both timers, the
\* stack, the memory and the display are unchanged.
C23_LogicFrame ==
    FetchedLogic
        => /\ panic = NoPanic
           /\ v = [LastStep.v EXCEPT ![X(LastStep.ins)] = Stored(LastStep.ins, LastStep.v)]
           /\ pc = LastStep.pc + 1
           /\ <<i, dt, st, stack, ram, display>>
                = <<LastStep.i, LastStep.dt, LastStep.st, LastStep.stack, LastStep.ram,
                    LastStep.display>>

\* 8xy1 has been executed with x # 0xF while VF held a non-zero value, and it
\* changed Vx
C23_Witness ==
    /\ Fetched8(1)
    /\ X(LastStep.ins) # 15
    /\ LastStep.v[15] # 0
    /\ v[X(LastStep.ins)] # LastStep.v[X(LastStep.ins)]

====
